---- MODULE Spec2Model ----
(***************************************************************************)
(* Model of project_check.py: the entry point prints a start banner, runs  *)
(* check_imports (flake8), check_urls (link scanner) and                   *)
(* check_dependencies (manifest importer), then prints a completion        *)
(* banner.  Strings are sequences of one-character strings so that         *)
(* endswith, split, startswith, strip and the substring test are computed  *)
(* as Python computes them.                                                *)
(***************************************************************************)
EXTENDS Integers, Sequences, FiniteSets, TLC

VARIABLES
    entry,           \* what was started: the script, or one function of it
    tree,            \* files in os.walk order: [name, lines]
    manifestExists,  \* whether requirements.txt can be opened
    manifest,        \* lines of requirements.txt
    pc,              \* position of the script
    fi,              \* index in tree of the file check_urls is at
    li,              \* index of the next line of the open file
    pending,         \* urls of the current line not yet probed
    mi,              \* index of the next manifest line (0: manifest not open)
    lint,            \* how subprocess.run(["flake8", "."]) ended
    out,             \* lines printed so far: [tag, arg, code]
    probes,          \* requests.head calls made: [file, url, outcome]
    opened,          \* indices of the files check_urls opened
    imports,         \* importlib.import_module calls made: [line, pkg, outcome]
    crash,           \* the uncaught exception that ended the run, if any
    exitStatus       \* exit status of the process (-1 while running)

vars == <<entry, tree, manifestExists, manifest, pc, fi, li, pending, mi, lint, out,
          probes, opened, imports, crash, exitStatus>>

----------------------------------------------------------------------------
(* Bounds of the model *)

MaxFiles == 2
MaxManifestLines == 2

RECURSIVE SeqsUpTo(_, _)
SeqsUpTo(S, n) ==
    IF n = 0 THEN { <<>> }
    ELSE LET shorter == SeqsUpTo(S, n - 1)
         IN  shorter \cup { Append(q, x) : q \in shorter, x \in S }

----------------------------------------------------------------------------
(* Python string functions *)

IsSpace(c) == c \in {" ", "\t", "\n"}

StartsWith(w, p) == Len(w) >= Len(p) /\ SubSeq(w, 1, Len(p)) = p

EndsWith(w, s) == Len(w) >= Len(s) /\ SubSeq(w, Len(w) - Len(s) + 1, Len(w)) = s

Contains(s, sub) ==
    \E i \in 1..(Len(s) - Len(sub) + 1) : SubSeq(s, i, i + Len(sub) - 1) = sub

RECURSIVE SplitAcc(_, _, _)
SplitAcc(s, cur, acc) ==
    IF s = <<>> THEN (IF cur = <<>> THEN acc ELSE Append(acc, cur))
    ELSE IF IsSpace(Head(s))
         THEN SplitAcc(Tail(s), <<>>, IF cur = <<>> THEN acc ELSE Append(acc, cur))
         ELSE SplitAcc(Tail(s), Append(cur, Head(s)), acc)

Split(s) == SplitAcc(s, <<>>, <<>>)

RECURSIVE LStrip(_)
LStrip(s) == IF s # <<>> /\ IsSpace(Head(s)) THEN LStrip(Tail(s)) ELSE s

RECURSIVE RStrip(_)
RStrip(s) ==
    IF s # <<>> /\ IsSpace(s[Len(s)]) THEN RStrip(SubSeq(s, 1, Len(s) - 1)) ELSE s

Strip(s) == RStrip(LStrip(s))

RECURSIVE SplitFirst(_, _)
SplitFirst(s, sep) ==
    IF s = <<>> \/ StartsWith(s, sep) THEN <<>>
    ELSE <<Head(s)>> \o SplitFirst(Tail(s), sep)

----------------------------------------------------------------------------
(* Literals of the script *)

Http == <<"h", "t", "t", "p">>

Extensions == { <<".", "p", "y">>, <<".", "m", "d">>,
                <<".", "h", "t", "m", "l">>, <<".", "t", "x", "t">> }

PinSeparator == <<"=", "=">>

BadStatus == 400

----------------------------------------------------------------------------
(* Inputs: the walked tree, the manifest, the outcomes of the calls *)

TwoUrls  == <<"h","t","t","p",":","a"," ","h","t","t","p",":","b","\n">>
NoUrl    == <<"x"," ","y","\n">>
Embedded == <<"x","h","t","t","p"," ","(","h","t","t","p",":","c",")","\n">>
Trailing == <<"s","\t","h","t","t","p","s",":","a",".","\n">>

SourceFile   == [name |-> <<"a", ".", "p", "y">>, lines |-> <<TwoUrls>>]
MarkdownFile == [name |-> <<"b", ".", "m", "d">>, lines |-> <<Embedded, Trailing>>]
TextFile     == [name |-> <<"d", ".", "t", "x", "t">>, lines |-> <<NoUrl>>]
MarkupFile   == [name |-> <<".", "h", "t", "m", "l">>, lines |-> <<>>]
CompiledFile == [name |-> <<"e", ".", "p", "y", "c">>, lines |-> <<TwoUrls>>]
UpperFile    == [name |-> <<"f", ".", "P", "Y">>, lines |-> <<Trailing>>]
NoDotFile    == [name |-> <<"t", "x", "t">>, lines |-> <<Trailing>>]

Files == { SourceFile, MarkdownFile, TextFile, MarkupFile, CompiledFile,
           UpperFile, NoDotFile }

\* the trees of a whole run of the script are drawn from fewer files
ScriptFiles == { MarkdownFile, CompiledFile }

Pinned   == <<"r", "=", "=", "2", "\n">>
Bare     == <<"n", "\n">>
Blank    == <<" ", "\n">>
NoName   == <<"=", "=", "1", "\n">>
Padded   == <<" ", "q", " ", "=", "=", "1", "\n">>
Relative == <<".", "v", "\n">>

ManifestLines == { Pinned, Bare, Blank, NoName, Padded, Relative }

ScriptManifestLines == { Pinned, Relative }

LintOutcomes == { "exit_zero", "exit_nonzero", "launch_failed" }

Response(code) == [kind |-> "response", code |-> code]
Raised == [kind |-> "raised", code |-> 0]

StatusCodes == { 200, 399, 400, 404 }

ProbeOutcomes == { Response(c) : c \in StatusCodes } \cup { Raised }

\* importlib.import_module: a name with a leading dot and no package argument
\* is a TypeError; any other name imports, is not found (ImportError), or
\* has its top-level code raise something else
ImportOutcomes(pkg) ==
    IF StartsWith(pkg, <<".">>) THEN { "TypeError" }
    ELSE { "ok", "ImportError", "Exception" }

----------------------------------------------------------------------------
(* Printed lines and the uncaught exception *)

Line(tag, arg, code) == [tag |-> tag, arg |-> arg, code |-> code]

NoCrash == [where |-> "none", step |-> "none", what |-> "none"]

Uncaught(where, step, what) == [where |-> where, step |-> step, what |-> what]

----------------------------------------------------------------------------
(* Initial states: the script is run (the __main__ block), or one of its   *)
(* functions is called on its own by an importer of the module; a whole    *)
(* run draws its tree and manifest from the smaller input sets.            *)

Init ==
    /\ entry \in { "script", "check_urls", "check_dependencies" }
    /\ tree \in CASE entry = "script" -> SeqsUpTo(ScriptFiles, MaxFiles)
                  [] entry = "check_urls" -> SeqsUpTo(Files, MaxFiles)
                  [] OTHER -> { <<>> }
    /\ manifestExists \in IF entry = "check_urls" THEN { TRUE } ELSE BOOLEAN
    /\ manifest \in CASE ~manifestExists -> { <<>> }
                      [] entry = "script" ->
                             SeqsUpTo(ScriptManifestLines, MaxManifestLines)
                      [] entry = "check_dependencies" ->
                             SeqsUpTo(ManifestLines, MaxManifestLines)
                      [] OTHER -> { <<>> }
    /\ pc = IF entry = "script" THEN "main" ELSE entry
    /\ fi = 0
    /\ li = 0
    /\ pending = <<>>
    /\ mi = 0
    /\ lint = "none"
    /\ out = <<>>
    /\ probes = <<>>
    /\ opened = <<>>
    /\ imports = <<>>
    /\ crash = NoCrash
    /\ exitStatus = -1

----------------------------------------------------------------------------
(* Helpers of the actions *)

Crash(where, step, what) ==
    /\ pc' = "crashed"
    /\ crash' = Uncaught(where, step, what)
    /\ exitStatus' = IF entry = "script" THEN 1 ELSE exitStatus

\* slip: the extension is looked for anywhere in the name
MatchesAnywhere(name) == \E ext \in Extensions : Contains(name, ext)

\* f.endswith((".py", ".md", ".html", ".txt"))
Matches(name) == \E ext \in Extensions : EndsWith(name, ext)

\* slip: the words holding "http" anywhere are taken
UrlsOfLineContaining(line) ==
    IF Contains(line, Http)
    THEN SelectSeq(Split(line), LAMBDA word : Contains(word, Http))
    ELSE <<>>

\* if "http" in line: [word for word in line.split() if word.startswith("http")]
UrlsOfLine(line) ==
    IF Contains(line, Http)
    THEN SelectSeq(Split(line), LAMBDA word : StartsWith(word, Http))
    ELSE <<>>

\* slip: > 400 for >= 400
ProbeOutputAbove(url, o) ==
    IF o.kind = "raised" THEN << Line("ERROR", url, 0) >>
    ELSE IF o.code > BadStatus THEN << Line("BAD LINK", url, o.code) >>
    ELSE <<>>

\* what one probe prints: the if inside the try, or the except clause
ProbeOutput(url, o) ==
    IF o.kind = "raised" THEN << Line("ERROR", url, 0) >>
    ELSE IF o.code >= BadStatus THEN << Line("BAD LINK", url, o.code) >>
    ELSE <<>>

\* line.strip().split("==")[0]
PkgName(line) == SplitFirst(Strip(line), PinSeparator)

----------------------------------------------------------------------------
(* The entry point and check_imports *)

Main ==
    /\ pc = "main"
    /\ out' = Append(out, Line("START", <<>>, 0))
    /\ pc' = "check_imports"
    /\ UNCHANGED <<entry, tree, manifestExists, manifest, fi, li, pending, mi,
                   lint, probes, opened, imports, crash, exitStatus>>

\* slip: the launch failure of flake8 is not caught
CheckImportsUncaught ==
    /\ pc = "check_imports"
    /\ \E o \in LintOutcomes :
          /\ lint' = o
          /\ out' = Append(out, Line("IMPORTS", <<>>, 0))
          /\ IF o = "launch_failed"
             THEN Crash("check_imports", "run", "FileNotFoundError")
             ELSE pc' = "check_urls" /\ UNCHANGED <<crash, exitStatus>>
    /\ UNCHANGED <<entry, tree, manifestExists, manifest, fi, li, pending, mi,
                   probes, opened, imports>>

CheckImports ==
    /\ pc = "check_imports"
    /\ \E o \in LintOutcomes :
          /\ lint' = o
          /\ out' = out \o << Line("IMPORTS", <<>>, 0) >> \o
                    (IF o = "launch_failed"
                     THEN << Line("FLAKE8 ERROR", <<>>, 0) >> ELSE <<>>)
    /\ pc' = "check_urls"
    /\ UNCHANGED <<entry, tree, manifestExists, manifest, fi, li, pending, mi,
                   probes, opened, imports, crash, exitStatus>>

----------------------------------------------------------------------------
(* check_urls *)

UrlsBegin ==
    /\ pc = "check_urls"
    /\ out' = Append(out, Line("LINKS", <<>>, 0))
    /\ fi' = 1
    /\ pc' = "walk"
    /\ UNCHANGED <<entry, tree, manifestExists, manifest, li, pending, mi, lint,
                   probes, opened, imports, crash, exitStatus>>

SkipFile ==
    /\ pc = "walk"
    /\ fi <= Len(tree)
    /\ ~Matches(tree[fi].name)
    /\ fi' = fi + 1
    /\ UNCHANGED <<entry, tree, manifestExists, manifest, pc, li, pending, mi,
                   lint, out, probes, opened, imports, crash, exitStatus>>

OpenFile ==
    /\ pc = "walk"
    /\ fi <= Len(tree)
    /\ Matches(tree[fi].name)
    /\ opened' = Append(opened, fi)
    /\ li' = 1
    /\ pc' = "read"
    /\ UNCHANGED <<entry, tree, manifestExists, manifest, fi, pending, mi, lint,
                   out, probes, imports, crash, exitStatus>>

\* open() is outside every try: its exception leaves check_urls
OpenFileRaises ==
    /\ pc = "walk"
    /\ fi <= Len(tree)
    /\ Matches(tree[fi].name)
    /\ Crash("check_urls", "open", "OSError")
    /\ UNCHANGED <<entry, tree, manifestExists, manifest, fi, li, pending, mi,
                   lint, out, probes, opened, imports>>

ReadLine ==
    /\ pc = "read"
    /\ li <= Len(tree[fi].lines)
    /\ LET urls == UrlsOfLine(tree[fi].lines[li])
       IN  /\ pending' = urls
           /\ pc' = IF urls = <<>> THEN "read" ELSE "probe"
    /\ li' = li + 1
    /\ UNCHANGED <<entry, tree, manifestExists, manifest, fi, mi, lint, out,
                   probes, opened, imports, crash, exitStatus>>

\* the iteration over the file is outside every try as well
ReadLineRaises ==
    /\ pc = "read"
    /\ li <= Len(tree[fi].lines)
    /\ Crash("check_urls", "read", "OSError")
    /\ UNCHANGED <<entry, tree, manifestExists, manifest, fi, li, pending, mi,
                   lint, out, probes, opened, imports>>

CloseFile ==
    /\ pc = "read"
    /\ li > Len(tree[fi].lines)
    /\ fi' = fi + 1
    /\ pc' = "walk"
    /\ UNCHANGED <<entry, tree, manifestExists, manifest, li, pending, mi, lint,
                   out, probes, opened, imports, crash, exitStatus>>

Probe ==
    /\ pc = "probe"
    /\ \E o \in ProbeOutcomes :
          LET url == Head(pending)
          IN  /\ probes' = Append(probes, [file |-> fi, line |-> li - 1,
                                           url |-> url, outcome |-> o])
              /\ out' = out \o ProbeOutput(url, o)
    /\ pending' = Tail(pending)
    /\ pc' = IF Tail(pending) = <<>> THEN "read" ELSE "probe"
    /\ UNCHANGED <<entry, tree, manifestExists, manifest, fi, li, mi, lint,
                   opened, imports, crash, exitStatus>>

UrlsReturn ==
    /\ pc = "walk"
    /\ fi > Len(tree)
    /\ pc' = IF entry = "script" THEN "check_dependencies" ELSE "returned"
    /\ UNCHANGED <<entry, tree, manifestExists, manifest, fi, li, pending, mi,
                   lint, out, probes, opened, imports, crash, exitStatus>>

----------------------------------------------------------------------------
(* check_dependencies *)

DepsOpen ==
    /\ pc = "check_dependencies"
    /\ manifestExists
    /\ out' = Append(out, Line("DEPS", <<>>, 0))
    /\ mi' = 1
    /\ pc' = "manifest"
    /\ UNCHANGED <<entry, tree, manifestExists, manifest, fi, li, pending, lint,
                   probes, opened, imports, crash, exitStatus>>

\* slip: the missing manifest is caught and the function returns
DepsOpenMissingCaught ==
    /\ pc = "check_dependencies"
    /\ ~manifestExists
    /\ out' = Append(out, Line("DEPS", <<>>, 0))
    /\ pc' = IF entry = "script" THEN "banner" ELSE "returned"
    /\ UNCHANGED <<entry, tree, manifestExists, manifest, fi, li, pending, mi,
                   lint, probes, opened, imports, crash, exitStatus>>

DepsOpenMissing ==
    /\ pc = "check_dependencies"
    /\ ~manifestExists
    /\ out' = Append(out, Line("DEPS", <<>>, 0))
    /\ Crash("check_dependencies", "open", "FileNotFoundError")
    /\ UNCHANGED <<entry, tree, manifestExists, manifest, fi, li, pending, mi,
                   lint, probes, opened, imports>>

SkipLine ==
    /\ pc = "manifest"
    /\ mi <= Len(manifest)
    /\ PkgName(manifest[mi]) = <<>>
    /\ mi' = mi + 1
    /\ UNCHANGED <<entry, tree, manifestExists, manifest, pc, fi, li, pending,
                   lint, out, probes, opened, imports, crash, exitStatus>>

ImportPkg ==
    /\ pc = "manifest"
    /\ mi <= Len(manifest)
    /\ LET pkg == PkgName(manifest[mi])
       IN  /\ pkg # <<>>
           /\ \E o \in ImportOutcomes(pkg) :
                 /\ imports' = Append(imports, [line |-> mi, pkg |-> pkg,
                                                outcome |-> o])
                 /\ CASE o = "ok" ->
                           /\ mi' = mi + 1
                           /\ UNCHANGED <<pc, out, crash, exitStatus>>
                      [] o = "ImportError" ->
                           /\ out' = Append(out, Line("MISSING", pkg, 0))
                           /\ mi' = mi + 1
                           /\ UNCHANGED <<pc, crash, exitStatus>>
                      [] OTHER ->
                           /\ Crash("check_dependencies", "import", o)
                           /\ UNCHANGED <<mi, out>>
    /\ UNCHANGED <<entry, tree, manifestExists, manifest, fi, li, pending, lint,
                   probes, opened>>

DepsReturn ==
    /\ pc = "manifest"
    /\ mi > Len(manifest)
    /\ pc' = IF entry = "script" THEN "banner" ELSE "returned"
    /\ UNCHANGED <<entry, tree, manifestExists, manifest, fi, li, pending, mi,
                   lint, out, probes, opened, imports, crash, exitStatus>>

\* slip: the script exits with 1 when a check printed a finding
FinishFailsOnFindings ==
    /\ pc = "banner"
    /\ out' = Append(out, Line("DONE", <<>>, 0))
    /\ pc' = "done"
    /\ exitStatus' = IF \E i \in DOMAIN out :
                            out[i].tag \in { "BAD LINK", "ERROR", "MISSING" }
                     THEN 1 ELSE 0
    /\ UNCHANGED <<entry, tree, manifestExists, manifest, fi, li, pending, mi,
                   lint, probes, opened, imports, crash>>

Finish ==
    /\ pc = "banner"
    /\ out' = Append(out, Line("DONE", <<>>, 0))
    /\ pc' = "done"
    /\ exitStatus' = 0
    /\ UNCHANGED <<entry, tree, manifestExists, manifest, fi, li, pending, mi,
                   lint, probes, opened, imports, crash>>

----------------------------------------------------------------------------

Next ==
    \/ Main
    \/ CheckImports
    \/ UrlsBegin
    \/ SkipFile
    \/ OpenFile
    \/ OpenFileRaises
    \/ ReadLine
    \/ ReadLineRaises
    \/ CloseFile
    \/ Probe
    \/ UrlsReturn
    \/ DepsOpen
    \/ DepsOpenMissing
    \/ SkipLine
    \/ ImportPkg
    \/ DepsReturn
    \/ Finish

Spec == Init /\ [][Next]_vars

----------------------------------------------------------------------------
(* Vocabulary of the properties, stated on positions of the strings rather  *)
(* than with the string functions the actions use                           *)

HasTag(t) == \E i \in DOMAIN out : out[i].tag = t

TagsOf(tags) == SelectSeq(out, LAMBDA l : l.tag \in tags)

Terminated == pc \in { "done", "crashed", "returned" }

\* check_urls ran to its end and returned to its caller
UrlsReturned == fi > Len(tree) /\ fi >= 1 /\ pc # "walk"

\* the manifest was opened
ManifestOpened == mi >= 1

HasSuffix(name, suffix) ==
    \E k \in 0..Len(name) : name = SubSeq(name, 1, k) \o suffix

AllowListed(name) ==
    \/ HasSuffix(name, <<".", "p", "y">>)
    \/ HasSuffix(name, <<".", "m", "d">>)
    \/ HasSuffix(name, <<".", "h", "t", "m", "l">>)
    \/ HasSuffix(name, <<".", "t", "x", "t">>)

IsBlank(c) == c = " " \/ c = "\t" \/ c = "\n"

\* a whitespace-separated token starts at position i, and where it ends
TokenStartsAt(line, i) ==
    ~IsBlank(line[i]) /\ (i = 1 \/ IsBlank(line[i - 1]))

TokenEnd(line, i) ==
    CHOOSE j \in i..Len(line) :
        /\ \A k \in i..j : ~IsBlank(line[k])
        /\ j = Len(line) \/ IsBlank(line[j + 1])

HttpAt(line, i) ==
    /\ i + 3 <= Len(line)
    /\ line[i] = "h" /\ line[i + 1] = "t" /\ line[i + 2] = "t" /\ line[i + 3] = "p"

HasHttp(line) == \E i \in 1..Len(line) : HttpAt(line, i)

\* the token occurrences starting with "http" of line l of file f, from
\* position i on
RECURSIVE LineProbes(_, _, _)
LineProbes(f, l, i) ==
    LET line == tree[f].lines[l]
    IN  IF i > Len(line) THEN <<>>
        ELSE (IF TokenStartsAt(line, i) /\ HttpAt(line, i)
              THEN << [file |-> f, line |-> l,
                       url |-> SubSeq(line, i, TokenEnd(line, i))] >>
              ELSE <<>>) \o LineProbes(f, l, i + 1)

RECURSIVE FileProbes(_, _)
FileProbes(f, l) ==
    IF l > Len(tree[f].lines) THEN <<>>
    ELSE LineProbes(f, l, 1) \o FileProbes(f, l + 1)

\* every token occurrence starting with "http" in the allow-listed files from
\* file f on, in file, line and token order
RECURSIVE TreeProbes(_)
TreeProbes(f) ==
    IF f > Len(tree) THEN <<>>
    ELSE (IF AllowListed(tree[f].name) THEN FileProbes(f, 1) ELSE <<>>)
         \o TreeProbes(f + 1)

ExpectedProbes == TreeProbes(1)

ProbeKeys == [k \in 1..Len(probes) |->
                 [file |-> probes[k].file, line |-> probes[k].line,
                  url |-> probes[k].url]]

IsPrefix(p, q) == Len(p) <= Len(q) /\ p = SubSeq(q, 1, Len(p))

----------------------------------------------------------------------------
(* C2: the probes check_urls issues are exactly the whitespace-separated   *)
(* tokens starting with "http" on the lines of the allow-listed files, one *)
(* probe per occurrence, in file, line and token order: at every moment    *)
(* the probes made are the first of them, and once check_urls has returned *)
(* they are all of them, whatever each probe answered; a line without      *)
(* "http" is never probed, and no probe ends the scan.                     *)
C2_ProbesAreTheHttpTokens ==
    /\ LET expected == ExpectedProbes
       IN  /\ IsPrefix(ProbeKeys, expected)
           /\ UrlsReturned => ProbeKeys = expected
    /\ \A k \in DOMAIN probes : HasHttp(tree[probes[k].file].lines[probes[k].line])
    /\ pc = "probe" => pending # <<>>
    /\ ~(crash.where = "check_urls" /\ crash.step = "probe")

\* check_urls returned after three probes, two of them on one line, the
\* first of which raised and the second of which was a bad status
C2_Witness ==
    /\ UrlsReturned
    /\ Len(probes) = 3
    /\ probes[1].outcome = Raised
    /\ probes[2].outcome = Response(404)
    /\ probes[1].line = probes[2].line /\ probes[1].file = probes[2].file
    /\ probes[3].file > probes[1].file

----------------------------------------------------------------------------
(* C3: each probe prints at most one line, decided by its own outcome: a   *)
(* status code >= 400 prints one [BAD LINK] line with the url and the code,*)
(* a raised exception prints one [ERROR] line with the url, a status code  *)
(* below 400 prints nothing; so the link lines printed are, in order, the  *)
(* lines of the probes made.                                               *)
DiagnosticOf(p) ==
    IF p.outcome.kind = "raised" THEN << [tag |-> "ERROR", arg |-> p.url, code |-> 0] >>
    ELSE IF p.outcome.code < 400 THEN <<>>
    ELSE << [tag |-> "BAD LINK", arg |-> p.url, code |-> p.outcome.code] >>

RECURSIVE DiagnosticsOf(_)
DiagnosticsOf(ps) ==
    IF ps = <<>> THEN <<>> ELSE DiagnosticOf(Head(ps)) \o DiagnosticsOf(Tail(ps))

C3_OneLinePerProbeOutcome ==
    TagsOf({ "BAD LINK", "ERROR" }) = DiagnosticsOf(probes)

\* probes answering 404, 200, a raised exception and 400 have been made
C3_Witness ==
    /\ \E k \in DOMAIN probes : probes[k].outcome = Response(404)
    /\ \E k \in DOMAIN probes : probes[k].outcome = Response(200)
    /\ \E k \in DOMAIN probes : probes[k].outcome = Raised
    /\ \E k \in DOMAIN probes : probes[k].outcome = Response(400)
    /\ Len(TagsOf({ "BAD LINK" })) = 2
    /\ Len(TagsOf({ "ERROR" })) = 1

----------------------------------------------------------------------------
(* C8: check_urls opens a file only if its name ends with .py, .md, .html  *)
(* or .txt, and once it has returned it has opened every such file of the  *)
(* tree, in order; a file with any other name is never opened and no probe *)
(* and no printed line comes from it.                                      *)
AllowListedFiles == { f \in 1..Len(tree) : AllowListed(tree[f].name) }

RECURSIVE Ascending(_)
Ascending(S) ==
    IF S = {} THEN <<>>
    ELSE LET m == CHOOSE x \in S : \A y \in S : x <= y
         IN  <<m>> \o Ascending(S \ {m})

C8_OnlyAllowListedFilesOpened ==
    LET allowed == AllowListedFiles
    IN  /\ \A k \in DOMAIN opened : opened[k] \in allowed
        /\ \A k \in DOMAIN probes : probes[k].file \in allowed
        /\ pc \in { "read", "probe" } => fi \in allowed
        /\ UrlsReturned => opened = Ascending(allowed)
        /\ allowed = {} => TagsOf({ "BAD LINK", "ERROR" }) = <<>>

\* check_urls returned from a tree of a compiled file holding two urls and a
\* source file: only the source file was opened and probed
C8_Witness ==
    /\ UrlsReturned
    /\ tree = << CompiledFile, SourceFile >>
    /\ opened = << 2 >>
    /\ Len(probes) = 2

----------------------------------------------------------------------------
(* C5: when requirements.txt is missing no [MISSING] line and no           *)
(* completion banner is ever printed, no import is attempted and the run   *)
(* never completes; check_dependencies ends at its open with an uncaught   *)
(* FileNotFoundError, and in a run of the script that happens only after   *)
(* the lint runner has run and the whole link scan has been made and       *)
(* printed.                                                                *)
C5_MissingManifestEndsTheRun ==
    ~manifestExists =>
        /\ ~HasTag("MISSING")
        /\ ~HasTag("DONE")
        /\ imports = <<>>
        /\ ~ManifestOpened
        /\ pc \notin { "manifest", "banner", "done" }
        /\ entry = "check_dependencies" => pc # "returned"
        /\ HasTag("DEPS") =>
              /\ pc = "crashed"
              /\ crash = [where |-> "check_dependencies", step |-> "open",
                          what |-> "FileNotFoundError"]
              /\ out[Len(out)].tag = "DEPS"
              /\ entry = "script" =>
                    /\ lint # "none"
                    /\ HasTag("IMPORTS") /\ HasTag("LINKS")
                    /\ UrlsReturned
                    /\ ProbeKeys = ExpectedProbes
                    /\ TagsOf({ "BAD LINK", "ERROR" }) = DiagnosticsOf(probes)
                    /\ exitStatus # 0

\* the script ended at the missing manifest after the link scan had printed
\* a bad link
C5_Witness ==
    /\ entry = "script"
    /\ ~manifestExists
    /\ pc = "crashed"
    /\ crash.what = "FileNotFoundError"
    /\ HasTag("BAD LINK")

----------------------------------------------------------------------------
(* C7: the script runs the lint runner, then the link scanner, then the    *)
(* dependency checker, and the lint step never ends the run: whether       *)
(* flake8 exits with zero, exits with non-zero or cannot be launched, no   *)
(* exception leaves check_imports, a launch failure is only printed, and   *)
(* check_urls is entered next; check_dependencies is entered only once     *)
(* check_urls has returned.                                                *)
HeaderOrder == << "START", "IMPORTS", "LINKS", "DEPS", "DONE" >>

HeadersPrinted ==
    LET hs == TagsOf({ "START", "IMPORTS", "LINKS", "DEPS", "DONE" })
    IN  [k \in 1..Len(hs) |-> hs[k].tag]

C7_LintNeverStopsTheRun ==
    entry = "script" =>
        /\ crash.where # "check_imports"
        /\ IsPrefix(HeadersPrinted, HeaderOrder)
        /\ HasTag("LINKS") => lint # "none"
        /\ HasTag("FLAKE8 ERROR") <=> lint = "launch_failed"
        /\ lint # "none" => pc \notin { "main", "check_imports" }
        /\ Terminated => HasTag("LINKS")
        /\ HasTag("DEPS") => UrlsReturned
        /\ pc = "done" => HeadersPrinted = HeaderOrder

\* flake8 could not be launched and the script still probed a url, imported
\* a package and completed
C7_Witness ==
    /\ entry = "script"
    /\ lint = "launch_failed"
    /\ pc = "done"
    /\ probes # <<>>
    /\ imports # <<>>

----------------------------------------------------------------------------
(* C9: the exit status of the script does not depend on what the checks    *)
(* found: a run that reaches the end of the script exits with status 0     *)
(* whatever the lint outcome and however many [BAD LINK], [ERROR] and      *)
(* [MISSING] lines were printed, and a non-zero status is only ever the    *)
(* one of an uncaught exception.                                           *)
C9_ExitStatusIgnoresFindings ==
    entry = "script" =>
        /\ pc = "done" => exitStatus = 0
        /\ exitStatus = -1 <=> ~Terminated
        /\ (Terminated /\ exitStatus # 0) => (pc = "crashed" /\ crash # NoCrash)

\* the script completed with status 0 after a non-zero lint exit, a bad
\* link, a probe error and a missing package
C9_Witness ==
    /\ entry = "script"
    /\ pc = "done"
    /\ exitStatus = 0
    /\ lint = "exit_nonzero"
    /\ HasTag("BAD LINK") /\ HasTag("ERROR") /\ HasTag("MISSING")

----------------------------------------------------------------------------
(* C1: check_urls always completes its traversal: whatever each file open, *)
(* file read and probe does, no exception leaves check_urls and, once it   *)
(* is over, every allow-listed file of the tree has been visited.          *)
C1_ScanAlwaysCompletes ==
    /\ crash.where # "check_urls"
    /\ (Terminated /\ entry # "check_dependencies") =>
           opened = Ascending(AllowListedFiles)

----------------------------------------------------------------------------
(* C4: every import failure is contained at its package: whatever way an   *)
(* import fails, no exception leaves check_dependencies, one [MISSING]     *)
(* line is printed for the package, and every later line is still checked. *)
FailedImports == SelectSeq(imports, LAMBDA a : a.outcome # "ok")

MissingPrinted ==
    LET ms == TagsOf({ "MISSING" }) IN [k \in 1..Len(ms) |-> ms[k].arg]

C4_ImportFailuresContained ==
    /\ ~(crash.where = "check_dependencies" /\ crash.step = "import")
    /\ MissingPrinted = [k \in 1..Len(FailedImports) |-> FailedImports[k].pkg]
    /\ (Terminated /\ ManifestOpened) => mi > Len(manifest)

----------------------------------------------------------------------------
(* C6: in a run of the script the start banner is the first line printed,  *)
(* and whenever the manifest was opened the run ends with the completion   *)
(* banner as its last line, whatever the lint runner, the probes and the   *)
(* imports did; with no allow-listed file in the tree no [BAD LINK] or     *)
(* [ERROR] line is printed and both banners are.                           *)
C6_BannersFirstAndLast ==
    entry = "script" =>
        /\ out # <<>> => out[1].tag = "START"
        /\ pc # "main" => out # <<>>
        /\ (Terminated /\ ManifestOpened) => out[Len(out)].tag = "DONE"
        /\ (pc = "done" /\ AllowListedFiles = {}) =>
               /\ TagsOf({ "BAD LINK", "ERROR" }) = <<>>
               /\ HasTag("START") /\ HasTag("DONE")

----------------------------------------------------------------------------
(* C10: check_dependencies makes one import attempt per line whose name is *)
(* not empty, in manifest order, the name being the stripped line up to    *)
(* its first "=="; lines with an empty name are skipped; and [MISSING] is  *)
(* printed for a line exactly when the import of its name failed.          *)
NameOf(line) ==
    LET inked == { i \in 1..Len(line) : ~IsBlank(line[i]) }
        first == CHOOSE i \in inked : \A j \in inked : i <= j
        last  == CHOOSE i \in inked : \A j \in inked : j <= i
        pins  == { i \in first..(last - 1) : line[i] = "=" /\ line[i + 1] = "=" }
        pin   == CHOOSE i \in pins : \A j \in pins : i <= j
    IN  IF inked = {} THEN <<>>
        ELSE IF pins = {} THEN SubSeq(line, first, last)
        ELSE SubSeq(line, first, pin - 1)

NamedLines == { l \in 1..Len(manifest) : NameOf(manifest[l]) # <<>> }

ExpectedImports ==
    LET ls == Ascending(NamedLines)
    IN  [k \in 1..Len(ls) |-> [line |-> ls[k], pkg |-> NameOf(manifest[ls[k]])]]

ImportKeys ==
    [k \in 1..Len(imports) |-> [line |-> imports[k].line, pkg |-> imports[k].pkg]]

C10_OneImportPerNamedLine ==
    /\ IsPrefix(ImportKeys, ExpectedImports)
    /\ (Terminated /\ ManifestOpened) => ImportKeys = ExpectedImports
    /\ MissingPrinted = [k \in 1..Len(FailedImports) |-> FailedImports[k].pkg]

====
